---- MODULE Spec2Model ----
(***************************************************************************)
(* Model of src/blocks/jack.rs: the JACK/ALSA sound block of i3status-rust. *)
(*                                                                         *)
(*  - JackSoundDevice::get_info, the refresh of the device snapshot, with  *)
(*    the text processing of the amixer output done character by character *)
(*  - Jack::new, Jack::display and Block::update                            *)
(*  - the two listener threads started by JackSoundDevice::monitor and the *)
(*    channel of Tasks they send on                                         *)
(*                                                                         *)
(* Strings are sequences of one-character strings.                         *)
(***************************************************************************)
EXTENDS Integers, Sequences, FiniteSets, TLC

(***************************************************************************)
(* Text primitives of the Rust standard library used by get_info.          *)
(***************************************************************************)

\* char::is_whitespace, on the characters that occur in the modelled outputs.
IsWhitespace(c) == c \in {" ", "\t", "\n", "\r"}

\* A byte sequence that is not valid UTF-8, as one pseudo character.
BadByte == "\\xFF"

\* U+FFFD REPLACEMENT CHARACTER.
Replacement == "\\uFFFD"

\* String::from_utf8_lossy: invalid sequences become U+FFFD.
FromUtf8Lossy(bytes) ==
  [i \in DOMAIN bytes |-> IF bytes[i] = BadByte THEN Replacement ELSE bytes[i]]

RECURSIVE TrimStart(_)
TrimStart(s) ==
  IF s = << >> THEN s
  ELSE IF IsWhitespace(Head(s)) THEN TrimStart(Tail(s))
  ELSE s

RECURSIVE TrimEnd(_)
TrimEnd(s) ==
  IF s = << >> THEN s
  ELSE IF IsWhitespace(s[Len(s)]) THEN TrimEnd(SubSeq(s, 1, Len(s) - 1))
  ELSE s

\* str::trim
Trim(s) == TrimEnd(TrimStart(s))

\* A line that ended in "\n" loses a "\r" right before it.
StripCr(line) ==
  IF line # << >> /\ line[Len(line)] = "\r"
  THEN SubSeq(line, 1, Len(line) - 1)
  ELSE line

RECURSIVE LinesFrom(_, _)
LinesFrom(s, cur) ==
  IF s = << >> THEN (IF cur = << >> THEN << >> ELSE <<cur>>)
  ELSE IF Head(s) = "\n" THEN <<StripCr(cur)>> \o LinesFrom(Tail(s), << >>)
  ELSE LinesFrom(Tail(s), Append(cur, Head(s)))

\* str::lines, collected: the text between line feeds, no final empty line.
Lines(s) == LinesFrom(s, << >>)

RECURSIVE SplitFrom(_, _)
SplitFrom(s, cur) ==
  IF s = << >> THEN (IF cur = << >> THEN << >> ELSE <<cur>>)
  ELSE IF IsWhitespace(Head(s))
       THEN (IF cur = << >> THEN << >> ELSE <<cur>>) \o SplitFrom(Tail(s), << >>)
  ELSE SplitFrom(Tail(s), Append(cur, Head(s)))

\* str::split_whitespace, collected: the maximal runs of non-whitespace.
SplitWhitespace(s) == SplitFrom(s, << >>)

\* str::starts_with(char)
StartsWith(s, c) == s # << >> /\ s[1] = c

\* str::contains(&str)
Contains(s, pat) ==
  \E i \in 1..(Len(s) - Len(pat) + 1) : SubSeq(s, i, i + Len(pat) - 1) = pat

RECURSIVE TrimStartMatches(_, _)
TrimStartMatches(s, set) ==
  IF s = << >> THEN s
  ELSE IF Head(s) \in set THEN TrimStartMatches(Tail(s), set)
  ELSE s

RECURSIVE TrimEndMatches(_, _)
TrimEndMatches(s, set) ==
  IF s = << >> THEN s
  ELSE IF s[Len(s)] \in set THEN TrimEndMatches(SubSeq(s, 1, Len(s) - 1), set)
  ELSE s

\* A plausible slip: only the leading characters are stripped.
TrimMatches_prefix_only(s, set) == TrimStartMatches(s, set)

\* str::trim_matches(&[char]): strips the characters of set from both ends.
TrimMatches(s, set) == TrimEndMatches(TrimStartMatches(s, set), set)

Digits == <<"0", "1", "2", "3", "4", "5", "6", "7", "8", "9">>

IsDigit(c) == \E d \in 1..10 : Digits[d] = c

DigitValue(c) == (CHOOSE d \in 1..10 : Digits[d] = c) - 1

\* u32::MAX, as its decimal digits (the number itself exceeds the integers of
\* TLC).
U32MaxDigits == <<"4", "2", "9", "4", "9", "6", "7", "2", "9", "5">>

RECURSIVE StripZeros(_)
StripZeros(s) ==
  IF Len(s) > 1 /\ Head(s) = "0" THEN StripZeros(Tail(s)) ELSE s

RECURSIVE DigitsLess(_, _)
\* a < b for digit strings of the same length
DigitsLess(a, b) ==
  IF a = << >> THEN FALSE
  ELSE IF Head(a) # Head(b) THEN DigitValue(Head(a)) < DigitValue(Head(b))
  ELSE DigitsLess(Tail(a), Tail(b))

\* PosOverflow of u32::from_str: the digits denote more than u32::MAX.
OverflowsU32(ds) ==
  LET n == StripZeros(ds) IN
  \/ Len(n) > Len(U32MaxDigits)
  \/ Len(n) = Len(U32MaxDigits) /\ DigitsLess(U32MaxDigits, n)

RECURSIVE Accumulate(_, _)
Accumulate(ds, acc) ==
  IF ds = << >> THEN acc
  ELSE Accumulate(Tail(ds), acc * 10 + DigitValue(Head(ds)))

\* str::parse::<u32>: an optional "+", then one or more decimal digits that
\* fit 32 bits. ok = FALSE stands for the ParseIntError.
ParseU32(s) ==
  LET ds == IF StartsWith(s, "+") THEN Tail(s) ELSE s IN
  IF ds = << >> \/ (\E i \in 1..Len(ds) : ~IsDigit(ds[i])) \/ OverflowsU32(ds)
  THEN [ok |-> FALSE, val |-> 0]
  ELSE [ok |-> TRUE, val |-> Accumulate(ds, 0)]

\* Vec::get(i), 0-based: <<item>> for Some(item), << >> for None.
Get(vec, i) == IF i + 1 <= Len(vec) THEN <<vec[i + 1]>> ELSE << >>

(***************************************************************************)
(* Constants of the block.                                                 *)
(***************************************************************************)

\* const FILTER: to filter [100%] output from amixer into 100
FILTER == {"[", "]", "%"}

\* The glyphs U+F111, U+F04B and U+F04D, each between two spaces.
REC_ICON == " <U+F111> "

PLAY_ICON == " <U+F04B> "

STOP_ICON == " <U+F04D> "

\* jack_sys::jack_transport_state_t
JackTransportStopped == "JackTransportStopped"

JackTransportRolling == "JackTransportRolling"

JackTransportLooping == "JackTransportLooping"

JackTransportStarting == "JackTransportStarting"

JackTransportNetStarting == "JackTransportNetStarting"

TransportStates ==
  {JackTransportStopped, JackTransportRolling, JackTransportLooping,
   JackTransportStarting, JackTransportNetStarting}

\* Result<()>: Ok, or the message of the BlockError.
Ok == "Ok"

ErrRunAmixer == "could not run amixer to get sound info"

ErrNoInfo == "could not get sound info"

ErrNoVolume == "could not get volume"

ErrParseVolume == "could not parse volume to u32"

ErrNoIcon == "cannot find icon"

(***************************************************************************)
(* The outcomes of the external calls of one get_info.                     *)
(***************************************************************************)

OutOn ==
  <<
    " "," ","L","i","m","i","t","s",":"," ","0"," ","-"," ","6","4","\n"," ",
    " ","M","o","n","o",":"," ","P","l","a","y","b","a","c","k"," ","5","0",
    " ","[","8","0","%","]"," ","[","o","n","]","\n"
  >>

OutOff ==
  <<
    "M","o","n","o",":"," ","P","l","a","y","b","a","c","k"," ","0"," ","[",
    "0","%","]"," ","[","o","f","f","]","\n"
  >>

OutDb ==
  <<
    " "," ","F","r","o","n","t"," ","R","i","g","h","t",":"," ","P","l","a",
    "y","b","a","c","k"," ","2","6"," ","[","4","1","%","]"," ","[","-","2",
    "8",".","5","0","d","B","]"," ","[","o","f","f","]","\n"
  >>

OutNoMute ==
  <<
    " "," ","M","o","n","o",":"," ","P","l","a","y","b","a","c","k"," ","6",
    "4"," ","[","1","0","0","%","]","\r","\n"
  >>

OutEmpty ==
  << >>

OutBlank ==
  <<
    "\n"," ","\t","\n"
  >>

OutNoToken ==
  <<
    " "," ","M","o","n","o",":"," ","P","l","a","y","b","a","c","k"," ","5",
    "0","\n"
  >>

OutSwapped ==
  <<
    " "," ","M","o","n","o",":"," ","[","o","n","]"," ","[","8","0","%","]",
    "\n"
  >>

OutOverflow ==
  <<
    "[","4","2","9","4","9","6","7","2","9","6","%","]"," ","[","o","n","]"
  >>

OutLastBare ==
  <<
    " "," ","M","o","n","o",":"," ","[","8","0","%","]"," ","[","o","n","]",
    "\n"," "," ","C","a","p","s",":"," ","p","v","o","l","u","m","e","\n"
  >>

OutNested ==
  <<
    " "," ","x","[","7","%","]"," ","[","[","5","%","]","]"," ","[","o","f",
    "f","%","]","\n"
  >>

OutPlus ==
  <<
    "[","+","1","5","%","]"," ","[","O","f","f","]","\n"
  >>

\* What amixer may have written on its standard output.
Stdouts ==
  {OutOn, OutOff, OutDb, OutNoMute, OutEmpty, OutBlank, OutNoToken,
   OutSwapped, OutOverflow, OutLastBare, OutNested, OutPlus}

\* jack::Client::new, jack_transport_query and port_by_name: no connection,
\* or a connection with a transport state and the capture port there or not.
JackOutcomes ==
  {[connected |-> FALSE, transport |-> JackTransportStopped, port |-> FALSE]}
  \cup [connected : {TRUE}, transport : TransportStates, port : BOOLEAN]

\* Command::output: the tool could not be started, or it ran to its end with
\* an exit status and what it wrote.
AmixerOutcomes ==
  {[spawned |-> FALSE, status |-> 0, stdout |-> << >>]}
  \cup [spawned : {TRUE}, status : {0, 1}, stdout : Stdouts]

\* The outcomes drawn where a block is refreshed again and again.
AmixerRuns ==
  {a \in AmixerOutcomes :
     \/ ~a.spawned
     \/ a.status = 0 /\ a.stdout \in {OutOn, OutOff, OutDb, OutNoToken}
     \/ a.status = 1 /\ a.stdout = OutEmpty}

(***************************************************************************)
(* JackSoundDevice                                                         *)
(***************************************************************************)

\* The struct as JackSoundDevice::new builds it, before its get_info.
NewDevice ==
  [volume |-> 0, muted |-> FALSE, jack_running |-> FALSE,
   jack_capturing |-> FALSE, jack_rolling |-> FALSE]

\* A plausible slip: the three flags are not reset before the probe.
ResetJack_none(dev) == dev

\* get_info, the three assignments before the probe.
ResetJack(dev) ==
  [dev EXCEPT !.jack_capturing = FALSE, !.jack_running = FALSE,
              !.jack_rolling = FALSE]

\* A plausible slip: every transport state but "stopped" counts as rolling.
IsRolling_not_stopped(state) == state # JackTransportStopped

\* get_info, the match on the result of jack_transport_query.
IsRolling(state) == state = JackTransportRolling

\* A plausible slip: the probe sets jack_running only with the capture port.
ProbeJack_running_with_port(dev, jack) ==
  IF jack.connected
  THEN [dev EXCEPT !.jack_rolling = IsRolling(jack.transport),
                   !.jack_running = jack.port,
                   !.jack_capturing = jack.port]
  ELSE dev

\* get_info, the probe of the JACK server.
ProbeJack(dev, jack) ==
  IF jack.connected
  THEN [dev EXCEPT !.jack_rolling = IsRolling(jack.transport),
                   !.jack_running = TRUE,
                   !.jack_capturing = jack.port]
  ELSE dev

\* get_info, the text of the tool: the trimmed lossy decoding of its stdout.
\* The exit status is not read.
OutputText(amixer) == Trim(FromUtf8Lossy(amixer.stdout))

IsVolumeToken(x) == StartsWith(x, "[") /\ ~Contains(x, <<"d", "B">>)

\* get_info, the tokens of the last line: filter, then map.
LastTokens(last_line) ==
  LET kept == SelectSeq(SplitWhitespace(last_line), IsVolumeToken)
  IN  [i \in DOMAIN kept |-> TrimMatches(kept[i], FILTER)]

\* get_info: last.get(1).map(|muted| *muted == "off").unwrap_or(false)
MutedOf(last) ==
  IF Get(last, 1) = << >> THEN FALSE ELSE Get(last, 1)[1] = <<"o", "f", "f">>

\* A plausible slip: a last line without a volume token reads as volume 0.
ReadMixer_defaults_volume(amixer) ==
  IF ~amixer.spawned THEN [res |-> ErrRunAmixer, volume |-> 0, muted |-> FALSE]
  ELSE
    LET lines == Lines(OutputText(amixer)) IN
    IF lines = << >> THEN [res |-> ErrNoInfo, volume |-> 0, muted |-> FALSE]
    ELSE
      LET last == LastTokens(lines[Len(lines)]) IN
      IF Get(last, 0) = << >>
      THEN [res |-> Ok, volume |-> 0, muted |-> FALSE]
      ELSE
        LET parsed == ParseU32(Get(last, 0)[1]) IN
        IF ~parsed.ok
        THEN [res |-> ErrParseVolume, volume |-> 0, muted |-> FALSE]
        ELSE [res |-> Ok, volume |-> parsed.val, muted |-> MutedOf(last)]

\* get_info from the call of amixer on: the Result, and with Ok the volume and
\* the mute flag it assigns.
ReadMixer(amixer) ==
  IF ~amixer.spawned THEN [res |-> ErrRunAmixer, volume |-> 0, muted |-> FALSE]
  ELSE
    LET lines == Lines(OutputText(amixer)) IN
    IF lines = << >> THEN [res |-> ErrNoInfo, volume |-> 0, muted |-> FALSE]
    ELSE
      LET last == LastTokens(lines[Len(lines)]) IN
      IF Get(last, 0) = << >>
      THEN [res |-> ErrNoVolume, volume |-> 0, muted |-> FALSE]
      ELSE
        LET parsed == ParseU32(Get(last, 0)[1]) IN
        IF ~parsed.ok
        THEN [res |-> ErrParseVolume, volume |-> 0, muted |-> FALSE]
        ELSE [res |-> Ok, volume |-> parsed.val, muted |-> MutedOf(last)]

\* ReadMixer of every outcome, evaluated once.
MixerReadings == {[of |-> a, reading |-> ReadMixer(a)] : a \in AmixerOutcomes}

\* A plausible slip: an Err of the mixer step clears volume and muted.
MixerInfo_clears_on_error(dev, amixer) ==
  LET r == (CHOOSE m \in MixerReadings : m.of = amixer).reading IN
  [sd |-> [dev EXCEPT !.volume = r.volume, !.muted = r.muted], res |-> r.res]

\* get_info from the call of amixer on, applied to the device: an Err leaves
\* volume and muted as they are.
MixerInfo(dev, amixer) ==
  LET r == (CHOOSE m \in MixerReadings : m.of = amixer).reading IN
  IF r.res = Ok
  THEN [sd |-> [dev EXCEPT !.volume = r.volume, !.muted = r.muted], res |-> Ok]
  ELSE [sd |-> dev, res |-> r.res]

\* A plausible slip: a failed connection to the server ends get_info with an
\* Err, before the mixer tool is asked.
GetInfo_needs_server(dev, jack, amixer) ==
  IF jack.connected THEN MixerInfo(ProbeJack(ResetJack(dev), jack), amixer)
  ELSE [sd |-> ResetJack(dev), res |-> ErrRunAmixer]

\* JackSoundDevice::get_info
GetInfo(dev, jack, amixer) == MixerInfo(ProbeJack(ResetJack(dev), jack), amixer)

(***************************************************************************)
(* The Jack block: TextWidget, configuration, display.                     *)
(***************************************************************************)

\* TextWidget::new(config).with_icon("volume_empty")
NewText == [icon |-> "volume_empty", text |-> << >>, state |-> "Idle"]

\* An icon table of the theme, and one that lacks the muted icon.
FullIcons ==
  [volume_empty |-> "<empty>", volume_half |-> "<half>",
   volume_full |-> "<full>", volume_muted |-> "<muted>"]

IconTables ==
  {FullIcons,
   [n \in {"volume_empty", "volume_half", "volume_full"} |-> FullIcons[n]]}

\* What Jack::new is given: SoundConfig and the shared Config.
Configs ==
  {c \in [show_volume_when_muted : BOOLEAN, icons : IconTables] :
     c.show_volume_when_muted => c.icons = FullIcons}

RECURSIVE DecimalDigits(_)
DecimalDigits(n) ==
  IF n < 10 THEN <<Digits[n + 1]>>
  ELSE Append(DecimalDigits(n \div 10), Digits[(n % 10) + 1])

\* format!("{:02}", n)
Fmt02(n) == IF n < 10 THEN <<"0">> \o DecimalDigits(n) ELSE DecimalDigits(n)

\* display: the icon of an unmuted volume.
VolumeIcon(volume) ==
  IF volume <= 20 THEN "volume_empty"
  ELSE IF volume <= 70 THEN "volume_half"
  ELSE "volume_full"

\* A plausible slip: the transport icon is shown without the test of running.
UnmutedText_transport_always(dev) ==
  <<IF dev.jack_running THEN "JACK" ELSE "ALSA", " ">>
  \o Fmt02(dev.volume) \o <<"%", " ">>
  \o (IF dev.jack_capturing THEN <<REC_ICON>> ELSE << >>)
  \o (IF dev.jack_rolling THEN <<PLAY_ICON>> ELSE <<STOP_ICON>>)

\* display: format!("{} {:02}% {}{}", ...) of the unmuted branch.
UnmutedText(dev) ==
  <<IF dev.jack_running THEN "JACK" ELSE "ALSA", " ">>
  \o Fmt02(dev.volume) \o <<"%", " ">>
  \o (IF dev.jack_capturing THEN <<REC_ICON>> ELSE << >>)
  \o (IF dev.jack_running
      THEN (IF dev.jack_rolling THEN <<PLAY_ICON>> ELSE <<STOP_ICON>>)
      ELSE << >>)

\* display, the branch of a muted device: set_icon, then the lookup of the
\* muted icon, which may fail, then set_text and set_state.
MutedBranch(txt, dev, cfg) ==
  LET iconed == [txt EXCEPT !.icon = "volume_empty"] IN
  IF "volume_muted" \notin DOMAIN cfg.icons
  THEN [text |-> iconed, res |-> ErrNoIcon]
  ELSE
    LET icon == cfg.icons["volume_muted"] IN
    [text |-> [iconed EXCEPT
                 !.text = IF cfg.show_volume_when_muted
                          THEN <<icon, " ">> \o Fmt02(dev.volume) \o <<"%">>
                          ELSE <<icon>>,
                 !.state = "Warning"],
     res  |-> Ok]

\* display, the branch of an unmuted device.
UnmutedBranch(txt, dev) ==
  [text |-> [icon  |-> VolumeIcon(dev.volume),
             text  |-> UnmutedText(dev),
             state |-> "Idle"],
   res  |-> Ok]

\* Jack::display: the device, the widget and the Result it leaves.
Display(dev, txt, cfg, jack, amixer) ==
  LET info == GetInfo(dev, jack, amixer) IN
  IF info.res # Ok THEN [sd |-> info.sd, text |-> txt, info |-> info.res,
                         res |-> info.res]
  ELSE
    LET shown == IF info.sd.muted THEN MutedBranch(txt, info.sd, cfg)
                 ELSE UnmutedBranch(txt, info.sd)
    IN  [sd |-> info.sd, text |-> shown.text, info |-> Ok, res |-> shown.res]

(***************************************************************************)
(* State.                                                                  *)
(***************************************************************************)

\* The blocks of this kind a configuration may hold.
Slots == {1, 2}

\* Uuid::new_v4().to_simple().to_string(): the values it may return.
Uuids == {"uuid-a", "uuid-b", "uuid-c"}

NoId == "no-id"

VARIABLES
  configured,   \* the slots the host constructs a Jack block for
  block,        \* per slot: "none", "ok" (Jack::new returned Ok), "failed"
  id,           \* per slot: Jack.id
  conf,         \* per slot: show_volume_when_muted and the icon table
  sd,           \* per slot: the JackSoundDevice
  text,         \* per slot: Jack.text, the TextWidget
  call,         \* per slot: history of the latest call of new or update
  alsa,         \* per slot: the thread that reads "alsactl monitor"
  mon,          \* per slot: the "alsactl monitor" process and its pipe
  dbus,         \* per slot: the thread that waits on the session bus
  busq,         \* per slot: the messages the bus connection holds unread
  chan,         \* the channel of Tasks to the scheduler
  rx,           \* whether the receiving end of the channel still exists
  burst         \* per slot: history of one burst of control events

DeviceFields ==
  {"volume", "muted", "jack_running", "jack_capturing", "jack_rolling"}

TextFields == {"icon", "text", "state"}

\* The fields of record b that hold what they hold in record a.
Same(a, b, fields) == {f \in fields : a[f] = b[f]}

NoCall ==
  [op |-> "none", jack |-> CHOOSE j \in JackOutcomes : ~j.connected,
   amixer |-> CHOOSE a \in AmixerOutcomes : ~a.spawned,
   info |-> Ok, res |-> Ok, kept |-> DeviceFields, shown |-> TextFields]

blockVars == <<configured, block, id, conf, sd, text, call>>

threadVars == <<alsa, mon, dbus, busq, chan, rx, burst>>

vars == <<blockVars, threadVars>>

(***************************************************************************)
(* Times, in milliseconds. Time passes in steps of Step.                   *)
(***************************************************************************)

\* thread::sleep(Duration::new(0, 250_000_000))
SleepMs == 250

\* c.incoming(1000)
BusWaitMs == 1000

\* let mut buffer = [0; 1024]
BufLen == 1024

\* How many steps of time one sleep takes.
TicksPerSleep == 2

Step == SleepMs \div TicksPerSleep

\* Lines the pipe of the monitor may hold unread.
MaxPipe == 2

\* Messages the bus connection may hold unread.
MaxBusQ == 2

\* Tasks the channel may hold.
MaxChan == 2

\* The lengths, in bytes, of the lines the monitor writes.
LineLens == {60, 600}

\* A thread that was not started.
NoThread == [pc |-> "unborn", sleep |-> 0, wait |-> 0, took |-> "none",
             sent |-> FALSE]

\* No monitor process: none started yet, or it ended.
NoMonitor == [alive |-> FALSE, pipe |-> << >>]

\* No burst of control events followed yet.
NoBurst == [state |-> "idle", left |-> 0, events |-> 0, bytes |-> 0,
            requests |-> 0]

\* JackSoundDevice::monitor: the two thread::spawn.
Spawned == [NoThread EXCEPT !.pc = "start"]


\* The history of a call: what it was given, what it returned, and the fields
\* of the device and of the widget it left as they were.
Called(op, jack, amixer, info, res, dev0, dev1, txt0, txt1) ==
  [op |-> op, jack |-> jack, amixer |-> amixer, info |-> info, res |-> res,
   kept |-> Same(dev0, dev1, DeviceFields),
   shown |-> Same(txt0, txt1, TextFields)]

\* JackSoundDevice::new: the struct, then its first get_info; an Err drops it.
DeviceNew(w, jack, amixer) ==
  LET info == GetInfo(NewDevice, jack, amixer) IN
  /\ w \in configured
  /\ block[w] = "none"
  /\ sd' = [sd EXCEPT ![w] = info.sd]
  /\ call' = [call EXCEPT ![w] =
                Called("new", jack, amixer, info.res, info.res,
                       NewDevice, info.sd, text[w], text[w])]
  /\ block' = [block EXCEPT ![w] = IF info.res = Ok THEN "device" ELSE "failed"]
  /\ UNCHANGED <<configured, id, conf, text, threadVars>>

\* JackSoundDevice::get_info on a device that exists.
DeviceGetInfo(w, jack, amixer) ==
  LET info == GetInfo(sd[w], jack, amixer) IN
  /\ block[w] = "device"
  /\ sd' = [sd EXCEPT ![w] = info.sd]
  /\ call' = [call EXCEPT ![w] =
                Called("get_info", jack, amixer, info.res, info.res,
                       sd[w], info.sd, text[w], text[w])]
  /\ UNCHANGED <<configured, block, id, conf, text, threadVars>>

\* Uuid::new_v4: a value no block holds yet.
NewV4 == CHOOSE u \in Uuids : \A w \in Slots : id[w] # u

\* A plausible slip: the listeners are started before the first get_info, and
\* run on when it fails.
New_spawns_first(w, cfg, jack, amixer) ==
  LET info == GetInfo(NewDevice, jack, amixer) IN
  /\ w \in configured
  /\ block[w] = "none"
  /\ sd' = [sd EXCEPT ![w] = info.sd]
  /\ call' = [call EXCEPT ![w] =
                Called("new", jack, amixer, info.res, info.res,
                       NewDevice, info.sd, text[w], text[w])]
  /\ id' = [id EXCEPT ![w] = NewV4]
  /\ alsa' = [alsa EXCEPT ![w] = Spawned]
  /\ dbus' = [dbus EXCEPT ![w] = Spawned]
  /\ IF info.res = Ok
     THEN /\ block' = [block EXCEPT ![w] = "ok"]
          /\ conf' = [conf EXCEPT ![w] = cfg]
          /\ text' = [text EXCEPT ![w] = NewText]
     ELSE /\ block' = [block EXCEPT ![w] = "failed"]
          /\ UNCHANGED <<conf, text>>
  /\ UNCHANGED <<configured, mon, busq, chan, rx, burst>>

\* Jack::new: the id, the device with its first get_info, the widget, and the
\* listeners. An Err of get_info is the Err of new.
New(w, cfg, jack, amixer) ==
  LET info == GetInfo(NewDevice, jack, amixer) IN
  /\ w \in configured
  /\ block[w] = "none"
  /\ sd' = [sd EXCEPT ![w] = info.sd]
  /\ call' = [call EXCEPT ![w] =
                Called("new", jack, amixer, info.res, info.res,
                       NewDevice, info.sd, text[w], text[w])]
  /\ IF info.res = Ok
     THEN /\ block' = [block EXCEPT ![w] = "ok"]
          /\ id' = [id EXCEPT ![w] = NewV4]
          /\ conf' = [conf EXCEPT ![w] = cfg]
          /\ text' = [text EXCEPT ![w] = NewText]
          /\ alsa' = [alsa EXCEPT ![w] = Spawned]
          /\ dbus' = [dbus EXCEPT ![w] = Spawned]
     ELSE /\ block' = [block EXCEPT ![w] = "failed"]
          /\ UNCHANGED <<id, conf, text, alsa, dbus>>
  /\ UNCHANGED <<configured, mon, busq, chan, rx, burst>>

\* Block::update: display, and its Err passed on.
Update(w, jack, amixer) ==
  LET d == Display(sd[w], text[w], conf[w], jack, amixer) IN
  /\ block[w] = "ok"
  /\ sd' = [sd EXCEPT ![w] = d.sd]
  /\ text' = [text EXCEPT ![w] = d.text]
  /\ call' = [call EXCEPT ![w] =
                Called("update", jack, amixer, d.info, d.res,
                       sd[w], d.sd, text[w], d.text)]
  /\ UNCHANGED <<configured, block, id, conf, threadVars>>

InitBlocks ==
  /\ block = [w \in Slots |-> "none"]
  /\ id = [w \in Slots |-> NoId]
  /\ conf = [w \in Slots |-> CHOOSE c \in Configs : TRUE]
  /\ sd = [w \in Slots |-> NewDevice]
  /\ text = [w \in Slots |-> NewText]
  /\ call = [w \in Slots |-> NoCall]
  /\ alsa = [w \in Slots |-> NoThread]
  /\ mon = [w \in Slots |-> NoMonitor]
  /\ dbus = [w \in Slots |-> NoThread]
  /\ busq = [w \in Slots |-> << >>]
  /\ chan = << >>
  /\ rx = TRUE
  /\ burst = [w \in Slots |-> NoBurst]

(***************************************************************************)
(* SpecDevice: one JackSoundDevice, built and then refreshed again and     *)
(* again, under every outcome of the server probe and of the mixer tool.   *)
(***************************************************************************)

InitDevice ==
  /\ configured = {1}
  /\ InitBlocks

BuildDevice ==
  \E w \in Slots, jack \in JackOutcomes, amixer \in AmixerOutcomes :
     DeviceNew(w, jack, amixer)

RefreshDevice ==
  \E w \in Slots, jack \in JackOutcomes, amixer \in AmixerOutcomes :
     DeviceGetInfo(w, jack, amixer)

NextDevice == BuildDevice \/ RefreshDevice

SpecDevice == InitDevice /\ [][NextDevice]_vars

(***************************************************************************)
(* Spec: the refresh path of one block: Jack::new, then updates.           *)
(***************************************************************************)

Init ==
  /\ configured = {1}
  /\ InitBlocks

Construct ==
  \E w \in Slots, cfg \in Configs, jack \in JackOutcomes,
     amixer \in AmixerRuns : New(w, cfg, jack, amixer)

Refresh ==
  \E w \in Slots, jack \in JackOutcomes, amixer \in AmixerRuns :
     Update(w, jack, amixer)

Next == Construct \/ Refresh

Spec == Init /\ [][Next]_vars

(***************************************************************************)
(* The channel of Tasks.                                                   *)
(***************************************************************************)

\* Task { id, update_time }: update_time, the instant of the send, is left
\* out; by names the sending thread and is no field of the Task.
Task(w, name) == [id |-> id[w], by |-> <<w, name>>]

\* A plausible slip: the bus thread sends a Task without the id of its block.
TaskOf_bus_anonymous(w, name) ==
  IF name = "dbus" THEN [id |-> NoId, by |-> <<w, name>>] ELSE Task(w, name)

\* The Task a thread of block w sends: id0.clone() and id2.clone().
TaskOf(w, name) == Task(w, name)

\* Sender::send: the channel after it. With the receiver gone nothing is
\* queued and the send is an Err.
Sent(w, name) == IF rx THEN Append(chan, TaskOf(w, name)) ELSE chan

\* A thread after send(..).unwrap() and the call of thread::sleep: the unwrap
\* of an Err ends the thread.
AfterSend(th) ==
  IF rx THEN [th EXCEPT !.pc = "sleep", !.sleep = SleepMs, !.sent = TRUE]
  ELSE [th EXCEPT !.pc = "dead", !.sent = FALSE]

\* A plausible slip: the sleep is taken only after a send.
AfterNoSend_no_sleep(th) == [th EXCEPT !.pc = "sleep", !.sleep = 0, !.sent = FALSE]

\* A thread that goes to thread::sleep without a send.
AfterNoSend(th) == [th EXCEPT !.pc = "sleep", !.sleep = SleepMs, !.sent = FALSE]

\* Time passing over a timer.
Elapse(t) == IF t > Step THEN t - Step ELSE 0

(***************************************************************************)
(* The "alsactl monitor" process, its pipe and the thread that reads it.   *)
(***************************************************************************)

RECURSIVE PipeBytes(_)
PipeBytes(pipe) ==
  IF pipe = << >> THEN 0 ELSE Head(pipe).len + PipeBytes(Tail(pipe))

RECURSIVE Drain(_, _)
\* The pipe after n bytes were taken from its front.
Drain(pipe, n) ==
  IF n = 0 \/ pipe = << >> THEN pipe
  ELSE IF Head(pipe).len <= n THEN Drain(Tail(pipe), n - Head(pipe).len)
  ELSE <<[Head(pipe) EXCEPT !.len = @ - n]>> \o Tail(pipe)

RECURSIVE Taken(_, _)
\* Whether the first n bytes of the pipe hold a byte of the burst.
Taken(pipe, n) ==
  IF n = 0 \/ pipe = << >> THEN FALSE
  ELSE Head(pipe).tag \/
       (Head(pipe).len < n /\ Taken(Tail(pipe), n - Head(pipe).len))

\* A plausible slip: a read returns one line at most.
ReadLen_one_line(pipe) ==
  IF pipe = << >> THEN 0
  ELSE IF Head(pipe).len <= BufLen THEN Head(pipe).len ELSE BufLen

\* Read::read on the pipe into the buffer: what is there, up to the buffer.
ReadLen(pipe) ==
  IF PipeBytes(pipe) <= BufLen THEN PipeBytes(pipe) ELSE BufLen

\* The thread starts the monitor: Command::spawn and the two expect.
AlsaStart(w, started) ==
  /\ alsa[w].pc = "start"
  /\ IF started
     THEN /\ alsa' = [alsa EXCEPT ![w].pc = "read"]
          /\ mon' = [mon EXCEPT ![w] = [alive |-> TRUE, pipe |-> << >>]]
     ELSE /\ alsa' = [alsa EXCEPT ![w].pc = "dead"]
          /\ UNCHANGED mon
  /\ UNCHANGED <<blockVars, dbus, busq, chan, rx, burst>>

\* The monitor writes one line, for one control event. opens: the line is the
\* first of the burst that is followed.
MonitorWrite(w, len, opens) ==
  LET inBurst == \/ burst[w].state = "idle" /\ opens
                 \/ burst[w].state = "open"
  IN
  /\ mon[w].alive
  /\ Len(mon[w].pipe) < MaxPipe
  /\ opens => burst[w].state = "idle"
  /\ mon' = [mon EXCEPT ![w].pipe = Append(@, [len |-> len, tag |-> inBurst])]
  /\ burst' = [burst EXCEPT ![w] =
                 IF ~inBurst THEN @
                 ELSE [state    |-> "open",
                       left     |-> IF opens THEN SleepMs ELSE @.left,
                       events   |-> @.events + 1,
                       bytes    |-> @.bytes + len,
                       requests |-> @.requests]]
  /\ UNCHANGED <<blockVars, alsa, dbus, busq, chan, rx>>

\* The monitor ends: what it wrote stays in the pipe, then the pipe is at its
\* end.
MonitorExit(w) ==
  /\ mon[w].alive
  /\ mon' = [mon EXCEPT ![w].alive = FALSE]
  /\ UNCHANGED <<blockVars, alsa, dbus, busq, chan, rx, burst>>

\* monitor.read(&mut buffer).is_ok()
ReadIsEvent(ok, n) == ok

\* What a read that returned Ok(n) delivered.
ReadKind(n) == IF n > 0 THEN "bytes" ELSE "eof"

\* One turn of the loop with a read that returns Ok(n): n bytes of the pipe,
\* or 0 at the end of the pipe of a monitor that ended. A read on an empty
\* pipe of a running monitor blocks.
AlsaReadOk(w) ==
  LET n == ReadLen(mon[w].pipe)
      emits == ReadIsEvent(TRUE, n)
  IN
  /\ alsa[w].pc = "read"
  /\ n > 0 \/ ~mon[w].alive
  /\ emits /\ rx => Len(chan) < MaxChan
  /\ mon' = [mon EXCEPT ![w].pipe = Drain(@, n)]
  /\ burst' = [burst EXCEPT ![w].requests =
                 IF emits /\ rx /\ Taken(mon[w].pipe, n) THEN @ + 1 ELSE @]
  /\ chan' = IF emits THEN Sent(w, "alsa") ELSE chan
  /\ alsa' = [alsa EXCEPT ![w] =
                IF emits THEN AfterSend([@ EXCEPT !.took = ReadKind(n)])
                ELSE AfterNoSend([@ EXCEPT !.took = ReadKind(n)])]
  /\ UNCHANGED <<blockVars, dbus, busq, rx>>

\* One turn of the loop with a read that returns an Err: nothing is taken
\* from the pipe.
AlsaReadErr(w) ==
  /\ alsa[w].pc = "read"
  /\ alsa' = [alsa EXCEPT ![w] =
                IF ReadIsEvent(FALSE, 0) THEN AfterSend([@ EXCEPT !.took = "err"])
                ELSE AfterNoSend([@ EXCEPT !.took = "err"])]
  /\ chan' = IF ReadIsEvent(FALSE, 0) THEN Sent(w, "alsa") ELSE chan
  /\ UNCHANGED <<blockVars, mon, dbus, busq, rx, burst>>

\* A plausible slip: the thread clears the server flags of the device as its
\* loop turns.
AlsaWake_touches_device(w) ==
  /\ alsa[w].pc = "sleep"
  /\ alsa[w].sleep = 0
  /\ alsa' = [alsa EXCEPT ![w] = [Spawned EXCEPT !.pc = "read"]]
  /\ sd' = [sd EXCEPT ![w] = ResetJack(@)]
  /\ UNCHANGED <<configured, block, id, conf, text, call, mon, dbus, busq,
                 chan, rx, burst>>

\* A plausible slip: what the monitor wrote during the sleep is thrown away as
\* the loop turns.
AlsaWake_flushes(w) ==
  /\ alsa[w].pc = "sleep"
  /\ alsa[w].sleep = 0
  /\ alsa' = [alsa EXCEPT ![w] = [Spawned EXCEPT !.pc = "read"]]
  /\ mon' = [mon EXCEPT ![w].pipe = << >>]
  /\ UNCHANGED <<blockVars, dbus, busq, chan, rx, burst>>

\* thread::sleep returns, the loop turns.
AlsaWake(w) ==
  /\ alsa[w].pc = "sleep"
  /\ alsa[w].sleep = 0
  /\ alsa' = [alsa EXCEPT ![w] = [Spawned EXCEPT !.pc = "read"]]
  /\ UNCHANGED <<blockVars, mon, dbus, busq, chan, rx, burst>>

(***************************************************************************)
(* The session bus and the thread that waits on it.                        *)
(***************************************************************************)

\* A plausible slip: the panic of the unwrap ends the process, and with it the
\* thread that reads the monitor.
BusConnect_aborts(w, connected) ==
  /\ dbus[w].pc = "start"
  /\ dbus' = [dbus EXCEPT ![w] =
                IF connected THEN [@ EXCEPT !.pc = "wait", !.wait = BusWaitMs]
                ELSE [@ EXCEPT !.pc = "dead"]]
  /\ alsa' = [alsa EXCEPT ![w] =
                IF connected THEN @ ELSE [@ EXCEPT !.pc = "dead"]]
  /\ UNCHANGED <<blockVars, mon, busq, chan, rx, burst>>

\* Connection::new_session().unwrap() and the six add_match(..).unwrap().
BusConnect(w, connected) ==
  /\ dbus[w].pc = "start"
  /\ dbus' = [dbus EXCEPT ![w] =
                IF connected THEN [@ EXCEPT !.pc = "wait", !.wait = BusWaitMs]
                ELSE [@ EXCEPT !.pc = "dead"]]
  /\ UNCHANGED <<blockVars, alsa, mon, busq, chan, rx, burst>>

\* A signal that matches a rule reaches the connection. It is marked "wait"
\* when it arrives while the thread waits in incoming(1000), "other" when it
\* arrives while the thread sleeps.
BusSignal(w) ==
  /\ dbus[w].pc \in {"wait", "sleep"}
  /\ Len(busq[w]) < MaxBusQ
  /\ busq' = [busq EXCEPT ![w] =
                Append(@, IF dbus[w].pc = "wait" THEN "wait" ELSE "other")]
  /\ UNCHANGED <<blockVars, alsa, mon, dbus, chan, rx, burst>>

\* The marks of the messages that stay queued when a message marked first is
\* taken: "left" marks a signal of the wait another signal of which was taken.
StayQueued(queue, first) ==
  [i \in 1..Len(queue) |->
     IF queue[i] = "wait" THEN (IF first = "wait" THEN "left" ELSE "other")
     ELSE queue[i]]

\* c.incoming(1000).next() returns Some: the first queued message, the others
\* stay queued.
Remaining(queue) == Tail(queue)

\* One turn of the loop with a message: the send, then the sleep.
BusIncoming(w) ==
  LET first == Head(busq[w]) IN
  /\ dbus[w].pc = "wait"
  /\ busq[w] # << >>
  /\ rx => Len(chan) < MaxChan
  /\ busq' = [busq EXCEPT ![w] = StayQueued(Remaining(@), first)]
  /\ chan' = Sent(w, "dbus")
  /\ dbus' = [dbus EXCEPT ![w] = AfterSend([@ EXCEPT !.took = first])]
  /\ UNCHANGED <<blockVars, alsa, mon, rx, burst>>

\* One turn of the loop without a message: next() returns None after 1000 ms.
BusTimeout(w) ==
  /\ dbus[w].pc = "wait"
  /\ busq[w] = << >>
  /\ dbus[w].wait = 0
  /\ dbus' = [dbus EXCEPT ![w] = AfterNoSend([@ EXCEPT !.took = "none"])]
  /\ UNCHANGED <<blockVars, alsa, mon, busq, chan, rx, burst>>

\* thread::sleep returns, the loop turns.
BusWake(w) ==
  /\ dbus[w].pc = "sleep"
  /\ dbus[w].sleep = 0
  /\ dbus' = [dbus EXCEPT ![w] = [Spawned EXCEPT !.pc = "wait",
                                                 !.wait = BusWaitMs]]
  /\ UNCHANGED <<blockVars, alsa, mon, busq, chan, rx, burst>>

(***************************************************************************)
(* The scheduler end of the channel, and time.                             *)
(***************************************************************************)

\* The scheduler takes a Task from the channel.
Recv ==
  /\ rx
  /\ chan # << >>
  /\ chan' = Tail(chan)
  /\ UNCHANGED <<blockVars, alsa, mon, dbus, busq, rx, burst>>

\* The receiving end of the channel is dropped, and the Tasks it holds.
RxDrop ==
  /\ rx
  /\ rx' = FALSE
  /\ chan' = << >>
  /\ UNCHANGED <<blockVars, alsa, mon, dbus, busq, burst>>

Timers(th) == IF th.pc = "sleep" THEN th.sleep ELSE IF th.pc = "wait" THEN th.wait ELSE 0

Elapsed(th) ==
  IF th.pc = "sleep" THEN [th EXCEPT !.sleep = Elapse(@)]
  ELSE IF th.pc = "wait" THEN [th EXCEPT !.wait = Elapse(@)]
  ELSE th

\* The history of the burst as Step milliseconds pass: the burst closes 250 ms
\* after its first event, and once closed and read to its last byte it is
\* forgotten, so that a later burst is followed.
Followed(b, pipe) ==
  IF b.state = "open"
  THEN [b EXCEPT !.left = Elapse(@),
                 !.state = IF Elapse(b.left) = 0 THEN "closed" ELSE "open"]
  ELSE IF b.state = "closed" /\ ~Taken(pipe, PipeBytes(pipe)) THEN NoBurst
  ELSE b

\* Step milliseconds pass: over the sleeps, over the waits on the bus, and
\* over the 250 ms that follow the first event of the burst.
Tick ==
  /\ \E w \in Slots :
       Timers(alsa[w]) > 0 \/ Timers(dbus[w]) > 0 \/ burst[w].state # "idle"
  /\ alsa' = [w \in Slots |-> Elapsed(alsa[w])]
  /\ dbus' = [w \in Slots |-> Elapsed(dbus[w])]
  /\ burst' = [w \in Slots |-> Followed(burst[w], mon[w].pipe)]
  /\ UNCHANGED <<blockVars, mon, busq, chan, rx>>

\* A long time passes: every sleep and every wait runs out.
Pause ==
  /\ \E w \in Slots : Timers(alsa[w]) > 0 \/ Timers(dbus[w]) > 0
  /\ alsa' = [w \in Slots |-> [alsa[w] EXCEPT !.sleep = 0]]
  /\ dbus' = [w \in Slots |-> [dbus[w] EXCEPT !.sleep = 0, !.wait = 0]]
  /\ burst' = [w \in Slots |->
                 IF burst[w].state = "open"
                 THEN [burst[w] EXCEPT !.left = 0, !.state = "closed"]
                 ELSE burst[w]]
  /\ UNCHANGED <<blockVars, mon, busq, chan, rx>>

\* The inputs of the Jack::new that starts the listeners.
QuietJack == CHOOSE j \in JackOutcomes : ~j.connected

GoodAmixer == CHOOSE a \in AmixerRuns : a.spawned /\ a.status = 0 /\ a.stdout = OutOn

PlainConfig == CHOOSE c \in Configs : c.show_volume_when_muted

Launch == \E w \in Slots : New(w, PlainConfig, QuietJack, GoodAmixer)

(***************************************************************************)
(* SpecAlsa: one block, its monitor process and the thread that reads it.  *)
(***************************************************************************)

StartMonitor == \E w \in Slots, started \in BOOLEAN : AlsaStart(w, started)

Write ==
  \E w \in Slots, len \in LineLens, opens \in BOOLEAN :
     MonitorWrite(w, len, opens)

Exit == \E w \in Slots : MonitorExit(w)

ReadOk == \E w \in Slots : AlsaReadOk(w)

ReadErr == \E w \in Slots : AlsaReadErr(w)

WakeAlsa == \E w \in Slots : AlsaWake(w)

NextAlsa ==
  \/ Launch
  \/ StartMonitor
  \/ Write
  \/ Exit
  \/ ReadOk
  \/ ReadErr
  \/ WakeAlsa
  \/ Recv
  \/ Tick

SpecAlsa == Init /\ [][NextAlsa]_vars

(***************************************************************************)
(* SpecDbus: one block and the thread that waits on the session bus.       *)
(***************************************************************************)

Connect == \E w \in Slots, connected \in BOOLEAN : BusConnect(w, connected)

Signal == \E w \in Slots : BusSignal(w)

Incoming == \E w \in Slots : BusIncoming(w)

Timeout == \E w \in Slots : BusTimeout(w)

WakeBus == \E w \in Slots : BusWake(w)

NextDbus ==
  \/ Launch
  \/ Connect
  \/ Signal
  \/ Incoming
  \/ Timeout
  \/ WakeBus
  \/ Recv
  \/ RxDrop
  \/ Tick

SpecDbus == Init /\ [][NextDbus]_vars

(***************************************************************************)
(* SpecTwo: two blocks with both listeners each, on one channel.           *)
(***************************************************************************)

InitTwo ==
  /\ configured = Slots
  /\ InitBlocks

\* The monitor writes a line into an empty pipe.
WriteOne ==
  \E w \in Slots : mon[w].pipe = << >> /\ MonitorWrite(w, 60, FALSE)

\* A signal reaches a connection that holds none.
SignalOne == \E w \in Slots : busq[w] = << >> /\ BusSignal(w)

NextTwo ==
  \/ Launch
  \/ StartMonitor
  \/ WriteOne
  \/ ReadOk
  \/ WakeAlsa
  \/ Connect
  \/ SignalOne
  \/ Incoming
  \/ Timeout
  \/ WakeBus
  \/ Recv
  \/ Pause

SpecTwo == InitTwo /\ [][NextTwo]_vars

(***************************************************************************)
(* SpecBlock: one block with both listeners, refreshed by the scheduler    *)
(* while the listeners run.                                                *)
(***************************************************************************)

\* The tool cannot be started.
NoAmixer == CHOOSE a \in AmixerRuns : ~a.spawned

\* The server found, its transport rolling.
RollingJack ==
  CHOOSE j \in JackOutcomes :
    j.connected /\ j.transport = JackTransportRolling /\ ~j.port

\* Jack::new, with a first get_info that succeeds or fails.
ConstructBlock ==
  \E w \in Slots, amixer \in {GoodAmixer, NoAmixer} :
     New(w, PlainConfig, QuietJack, amixer)

\* Block::update, the server present or absent.
RefreshBlock ==
  \E w \in Slots, jack \in {QuietJack, RollingJack} :
     Update(w, jack, GoodAmixer)

NextBlock ==
  \/ ConstructBlock
  \/ RefreshBlock
  \/ StartMonitor
  \/ WriteOne
  \/ ReadOk
  \/ WakeAlsa
  \/ Connect
  \/ SignalOne
  \/ Incoming
  \/ Timeout
  \/ WakeBus
  \/ Recv
  \/ Tick

SpecBlock == Init /\ [][NextBlock]_vars

(***************************************************************************)
(* LiveAlsa: the monitor and its thread with time that passes, a thread    *)
(* that is scheduled, a scheduler that takes the Tasks, and reads that do  *)
(* not fail for ever. The monitor writes lines of the usual length.        *)
(***************************************************************************)

\* The monitor writes a line of 60 bytes.
WriteLine == \E w \in Slots, opens \in BOOLEAN : MonitorWrite(w, 60, opens)

NextLive ==
  \/ Launch
  \/ StartMonitor
  \/ WriteLine
  \/ Exit
  \/ ReadOk
  \/ ReadErr
  \/ WakeAlsa
  \/ Recv
  \/ Tick

LiveAlsa ==
  /\ Init
  /\ [][NextLive]_vars
  /\ WF_vars(Tick)
  /\ WF_vars(WakeAlsa)
  /\ WF_vars(Recv)
  /\ SF_vars(ReadOk)

(***************************************************************************)
(* Properties of get_info, under SpecDevice.                               *)
(***************************************************************************)

Refreshed(w) == call[w].op # "none"

\* The three flags as the probe of the latest call found the server.
FlagsOfProbe(w) ==
  /\ sd[w].jack_running = call[w].jack.connected
  /\ sd[w].jack_rolling =
       (call[w].jack.connected /\ call[w].jack.transport = JackTransportRolling)
  /\ sd[w].jack_capturing = (call[w].jack.connected /\ call[w].jack.port)

\* C1, as stated: a get_info that returns an error leaves every field of the
\* device (volume, muted, jack_running, jack_rolling, jack_capturing) as it was
\* before the call.
C1_FailedRefreshKeepsEveryField ==
  \A w \in Slots :
    call[w].op = "get_info" /\ call[w].info # Ok => call[w].kept = DeviceFields

\* C1, amended: a get_info that returns an error leaves volume and muted as
\* they were before the call, and the three server flags hold what the probe of
\* this very call found, whatever they held before.
C1_FailedRefreshKeepsVolumeAndMuted ==
  \A w \in Slots :
    Refreshed(w) /\ call[w].info # Ok =>
      /\ {"volume", "muted"} \subseteq call[w].kept
      /\ FlagsOfProbe(w)

\* A failed refresh of a device that had a volume and a running server, with
\* the server gone at this call.
C1_Witness ==
  \E w \in Slots :
    /\ call[w].op = "get_info"
    /\ call[w].info = ErrNoVolume
    /\ sd[w].volume = 80
    /\ "jack_running" \notin call[w].kept

\* C2: after a get_info whose connection to the server failed, jack_running,
\* jack_rolling and jack_capturing are all false, whatever they were before and
\* whether the mixer step of the same call succeeded or not.
C2_NoConnectionClearsFlags ==
  \A w \in Slots :
    Refreshed(w) /\ ~call[w].jack.connected =>
      ~sd[w].jack_running /\ ~sd[w].jack_rolling /\ ~sd[w].jack_capturing

\* A call without connection and with a failing mixer step, on a device whose
\* flags were set.
C2_Witness ==
  \E w \in Slots :
    /\ call[w].op = "get_info"
    /\ ~call[w].jack.connected
    /\ call[w].info # Ok
    /\ call[w].kept \cap {"jack_running", "jack_rolling", "jack_capturing"} = {}

\* C7: after a get_info whose connection succeeded, jack_running is true and
\* jack_rolling is true exactly when the transport state was the rolling one.
C7_RollingIffTransportRolling ==
  \A w \in Slots :
    Refreshed(w) /\ call[w].jack.connected =>
      /\ sd[w].jack_running
      /\ sd[w].jack_rolling <=> call[w].jack.transport = "JackTransportRolling"

\* A connected call that found the transport starting, on a rolling device.
C7_Witness ==
  \E w \in Slots :
    /\ call[w].op = "get_info"
    /\ call[w].jack.connected
    /\ call[w].jack.transport = "JackTransportStarting"
    /\ ~sd[w].jack_rolling
    /\ "jack_rolling" \notin call[w].kept

(***************************************************************************)
(* The parse of the last line, stated over positions of the line.          *)
(***************************************************************************)

\* The maximal runs of non-whitespace of a line, as <<first, last>> positions.
TokenSpans(line) ==
  {sp \in (1..Len(line)) \X (1..Len(line)) :
     /\ sp[1] <= sp[2]
     /\ \A k \in sp[1]..sp[2] : line[k] \notin {" ", "\t", "\n", "\r"}
     /\ sp[1] = 1 \/ line[sp[1] - 1] \in {" ", "\t", "\n", "\r"}
     /\ sp[2] = Len(line) \/ line[sp[2] + 1] \in {" ", "\t", "\n", "\r"}}

\* Those that start with "[" and do not contain "dB".
BracketSpans(line) ==
  {sp \in TokenSpans(line) :
     /\ line[sp[1]] = "["
     /\ ~\E k \in sp[1]..(sp[2] - 1) : line[k] = "d" /\ line[k + 1] = "B"}

\* The n-th of them from the left: a set of one span, or the empty set.
NthBracket(line, n) ==
  {sp \in BracketSpans(line) :
     Cardinality({q \in BracketSpans(line) : q[1] < sp[1]}) = n - 1}

\* A span without the "[", "]" and "%" at its two ends.
Stripped(line, sp) ==
  LET inner == {k \in sp[1]..sp[2] : line[k] \notin {"[", "]", "%"}} IN
  IF inner = {} THEN << >>
  ELSE SubSeq(line, CHOOSE k \in inner : \A j \in inner : k <= j,
                    CHOOSE k \in inner : \A j \in inner : k >= j)

\* The digits of an unsigned decimal numeral, an optional "+" before them.
NumeralDigits(s) == IF s # << >> /\ s[1] = "+" THEN SubSeq(s, 2, Len(s)) ELSE s

IsNumeral(s) ==
  /\ NumeralDigits(s) # << >>
  /\ \A k \in 1..Len(NumeralDigits(s)) :
       NumeralDigits(s)[k] \in {"0", "1", "2", "3", "4", "5", "6", "7", "8", "9"}

\* More than 32 bits: without its leading zeros the numeral has more than ten
\* digits, or ten digits that come after 4294967295 in the order of numerals.
TooLarge(s) ==
  LET ds == NumeralDigits(s)
      max == <<4, 2, 9, 4, 9, 6, 7, 2, 9, 5>>
      val(c) == CHOOSE v \in 0..9 : <<"0", "1", "2", "3", "4", "5", "6", "7",
                                      "8", "9">>[v + 1] = c
      lead == {k \in 1..Len(ds) : ds[k] # "0"}
      from == IF lead = {} THEN Len(ds)
              ELSE CHOOSE k \in lead : \A j \in lead : k <= j
      sig == SubSeq(ds, from, Len(ds))
  IN  \/ Len(sig) > 10
      \/ /\ Len(sig) = 10
         /\ \E k \in 1..10 : /\ \A j \in 1..(k - 1) : val(sig[j]) = max[j]
                              /\ val(sig[k]) > max[k]

\* The number a numeral denotes: the sum of its digits times powers of ten.
NumeralValue(s) ==
  LET ds == NumeralDigits(s)
      digit(c) == CHOOSE v \in 0..9 : <<"0", "1", "2", "3", "4", "5", "6", "7",
                                        "8", "9">>[v + 1] = c
      pow[k \in 0..Len(ds)] == IF k = 0 THEN 1 ELSE 10 * pow[k - 1]
      sum[k \in 0..Len(ds)] ==
        IF k = 0 THEN 0 ELSE sum[k - 1] + digit(ds[k]) * pow[Len(ds) - k]
  IN  sum[Len(ds)]

\* The last line get_info reads, for a tool that ran and wrote one.
HasLastLine(w) ==
  /\ Refreshed(w)
  /\ call[w].amixer.spawned
  /\ Lines(OutputText(call[w].amixer)) # << >>

LastLineOf(w) ==
  LET lines == Lines(OutputText(call[w].amixer)) IN lines[Len(lines)]

\* C8: for every last line of the mixer output, get_info takes the
\* whitespace-separated tokens that start with "[" and do not contain "dB",
\* stripped of "[", "]" and "%": it returns Ok exactly when the first of them
\* is an unsigned integer of 32 bits, volume is then that integer, and muted is
\* true exactly when there is a second such token and it is "off"; a missing
\* second token gives muted = false and no error.
C8_ParseOfLastLine ==
  \A w \in Slots :
    HasLastLine(w) =>
      LET line == LastLineOf(w)
          first == NthBracket(line, 1)
          second == NthBracket(line, 2)
          numeral == \E sp \in first :
                       /\ IsNumeral(Stripped(line, sp))
                       /\ ~TooLarge(Stripped(line, sp))
      IN  /\ (call[w].info = Ok) <=> numeral
          /\ call[w].info = Ok =>
               /\ \A sp \in first : sd[w].volume = NumeralValue(Stripped(line, sp))
               /\ sd[w].muted <=>
                    \E sp \in second : Stripped(line, sp) = <<"o", "f", "f">>
          /\ (first = {}) <=> (call[w].info = ErrNoVolume)

\* A last line with a volume token and no mute token, read on a muted device.
C8_Witness ==
  \E w \in Slots :
    /\ call[w].op = "get_info"
    /\ call[w].amixer.stdout = OutNoMute
    /\ call[w].info = Ok
    /\ sd[w].volume = 100
    /\ ~sd[w].muted
    /\ "muted" \notin call[w].kept

\* C9: a mixer tool that exits with a status other than zero makes get_info
\* return an error, whatever the tool wrote on its standard output.
C9_NonZeroExitIsAnError ==
  \A w \in Slots :
    Refreshed(w) /\ call[w].amixer.spawned /\ call[w].amixer.status # 0 =>
      call[w].info # Ok

(***************************************************************************)
(* Properties of display and update, under Spec.                           *)
(***************************************************************************)

\* C10: an update that returns an error leaves the icon, the text and the
\* state of the widget as they were before the call, whatever the cause of the
\* error.
C10_FailedUpdateKeepsWidget ==
  \A w \in Slots :
    call[w].op = "update" /\ call[w].res # Ok => call[w].shown = TextFields

(***************************************************************************)
(* The listeners                                                           *)
(***************************************************************************)

\* The burst of block w is complete: its 250 ms are over and every byte of it
\* was read.
BurstRead(w) ==
  /\ burst[w].state = "closed"
  /\ ~Taken(mon[w].pipe, PipeBytes(mon[w].pipe))

\* C3, as the specification states it: N >= 2 control events that the monitor
\* writes within one span of 250 ms cause fewer than N Refresh Requests. It is
\* stated here for the bursts whose lines fit the buffer together.
C3_BurstGivesFewerRequestsThanEvents ==
  \A w \in Slots :
    burst[w].events >= 2 /\ burst[w].bytes <= BufLen =>
      burst[w].requests < burst[w].events

\* C3, amended: the control events that the monitor writes within one span of
\* 250 ms, when their lines fit the buffer of 1024 bytes together, cause at
\* most two Refresh Requests, one by the read that the first of them ends and
\* one by the read after the sleep; so three events and more cause fewer
\* requests than events, and two events may cause two.
C3_BurstGivesAtMostTwoRequests ==
  \A w \in Slots :
    burst[w].bytes <= BufLen =>
      /\ burst[w].requests <= 2
      /\ burst[w].events >= 3 => burst[w].requests < burst[w].events

C3_Witness ==
  \E w \in Slots :
    /\ BurstRead(w)
    /\ burst[w].events = 3
    /\ burst[w].bytes <= BufLen
    /\ burst[w].requests = 2

\* C4: the signals that reach the bus connection within one wait of
\* incoming(1000) cause one Refresh Request together: no signal that arrived
\* in a wait in which another signal was taken causes a request in a later
\* turn of the loop.
C4_SignalsOfOneWaitGiveOneRequest ==
  \A w \in Slots : dbus[w].sent => dbus[w].took # "left"

\* C5: the thread that reads the monitor sends a Refresh Request only after a
\* read that delivered at least one byte; with the monitor ended, and every
\* read at the end of the pipe or in error, it sends none.
C5_RequestOnlyAfterBytes ==
  \A w \in Slots : alsa[w].sent => alsa[w].took = "bytes"

\* The blocks that Jack::new returned.
Built == {w \in Slots : block[w] = "ok"}

\* C6: every Task in the channel carries the id that Jack::new gave the block
\* of the thread that sent it, the id that Block::id returns, and the ids of
\* two blocks differ.
C6_TaskCarriesTheIdOfItsBlock ==
  /\ \A i \in 1..Len(chan) :
       /\ chan[i].by[1] \in Built
       /\ chan[i].id = id[chan[i].by[1]]
       /\ chan[i].id \in Uuids
  /\ \A v, w \in Built : v # w => id[v] # id[w]

C6_Witness ==
  /\ Len(chan) = 2
  /\ chan[1].by = <<1, "alsa">>
  /\ chan[2].by = <<2, "dbus">>
  /\ chan[1].id # chan[2].id

(***************************************************************************)
(* The mixer step and the server flags, under SpecDevice.                  *)
(***************************************************************************)

\* What the mixer tool wrote holds nothing but whitespace.
Blank(out) == \A i \in 1..Len(out) : IsWhitespace(out[i])

\* The first volume token of the last line of the latest call is an unsigned
\* integer of 32 bits.
FirstIsNumeral(w) ==
  \E sp \in NthBracket(LastLineOf(w), 1) :
    /\ IsNumeral(Stripped(LastLineOf(w), sp))
    /\ ~TooLarge(Stripped(LastLineOf(w), sp))

\* The mixer step of the latest call succeeds: the tool ran, wrote a line, and
\* the first volume token of its last line is a number.
MixerStepSucceeds(w) ==
  /\ call[w].amixer.spawned
  /\ ~Blank(call[w].amixer.stdout)
  /\ FirstIsNumeral(w)

\* C16: get_info returns Ok exactly when the mixer tool ran and its last line
\* parsed, whether the connection to the server succeeded or failed: a failed
\* connection is no error, and a mixer failure is one with and without server.
C16_ResultIsTheMixerResult ==
  \A w \in Slots :
    Refreshed(w) => (call[w].info = Ok <=> MixerStepSucceeds(w))

\* A refresh without server that returns Ok and took the volume of the tool.
C16_Witness ==
  \E w \in Slots :
    /\ call[w].op = "get_info"
    /\ ~call[w].jack.connected
    /\ call[w].info = Ok
    /\ "volume" \notin call[w].kept

\* C17: each of the four failures of the mixer step gives its own error: the
\* tool that cannot be started, the empty output, the last line without volume
\* token, the volume token that is no unsigned integer; none gives Ok, and the
\* volume stays what it was instead of taking a default.
C17_EachMixerFailureIsItsError ==
  \A w \in Slots :
    Refreshed(w) =>
      /\ ~call[w].amixer.spawned => call[w].info = ErrRunAmixer
      /\ call[w].amixer.spawned /\ Blank(call[w].amixer.stdout) =>
           call[w].info = ErrNoInfo
      /\ HasLastLine(w) /\ NthBracket(LastLineOf(w), 1) = {} =>
           call[w].info = ErrNoVolume
      /\ HasLastLine(w) /\ NthBracket(LastLineOf(w), 1) # {}
           /\ ~FirstIsNumeral(w) => call[w].info = ErrParseVolume
      /\ call[w].info # Ok => "volume" \in call[w].kept

\* A refresh of a device with a volume, failing on a token that is no number.
C17_Witness ==
  \E w \in Slots :
    /\ call[w].op = "get_info"
    /\ call[w].amixer.stdout = OutOverflow
    /\ call[w].info = ErrParseVolume
    /\ sd[w].volume = 41

\* C19: in every state between two calls, jack_rolling and jack_capturing are
\* true only with jack_running true.
C19_RollingAndCapturingNeedRunning ==
  \A w \in Slots :
    /\ sd[w].jack_rolling => sd[w].jack_running
    /\ sd[w].jack_capturing => sd[w].jack_running

\* A refresh that failed in the mixer step, with the server rolling.
C19_Witness ==
  \E w \in Slots :
    /\ call[w].op = "get_info"
    /\ call[w].info # Ok
    /\ sd[w].jack_rolling
    /\ sd[w].jack_running
    /\ "jack_rolling" \notin call[w].kept

(***************************************************************************)
(* The text of the widget and the server flags, under Spec.                *)
(***************************************************************************)

\* The text shows the state of the server: its label or one of its icons.
ShowsServer(t) ==
  \E i \in 1..Len(t) : t[i] \in {"JACK", PLAY_ICON, STOP_ICON, REC_ICON}

\* C13, as stated: whenever the device has jack_running = false, the text of
\* the widget holds neither the play, the stop nor the record icon, nor the
\* label JACK.
C13_TextNeverShowsAbsentServer ==
  \A w \in Slots :
    block[w] = "ok" /\ ~sd[w].jack_running => ~ShowsServer(text[w].text)

\* C13, amended: the text that a display returning Ok writes for a device with
\* jack_running = false holds neither icon and is labelled ALSA when unmuted;
\* a display that returns an Err leaves the text of the display before it.
C13_RenderedTextShowsNoAbsentServer ==
  \A w \in Slots :
    call[w].op = "update" /\ call[w].res = Ok /\ ~sd[w].jack_running =>
      /\ ~ShowsServer(text[w].text)
      /\ ~sd[w].muted => text[w].text[1] = "ALSA"

\* An update without server that rewrote a text that showed the server.
C13_Witness ==
  \E w \in Slots :
    /\ call[w].op = "update"
    /\ call[w].res = Ok
    /\ call[w].kept \cap {"jack_running", "jack_rolling"} = {}
    /\ ~sd[w].jack_running
    /\ ~sd[w].muted
    /\ "text" \notin call[w].shown
    /\ text[w].text[1] = "ALSA"

(***************************************************************************)
(* The block and its two listeners, under SpecBlock.                       *)
(***************************************************************************)

\* The thread of the bus ended at the connection to the bus, before its loop.
BusDown(w) == dbus[w].pc = "dead" /\ dbus[w].took = "none"

\* The Tasks in the channel that a thread of block w sent.
TasksBy(w, name) == {i \in 1..Len(chan) : chan[i].by = <<w, name>>}

\* C11: a failed connection to the session bus ends the thread of the bus and
\* nothing else: the step changes neither the block nor the other thread, the
\* thread of the bus never sends a Task and stays ended, Jack::new has returned
\* Ok, and the thread that reads the monitor goes on sending a Task for every
\* read.
C11_FailedBusConnectionEndsOnlyItsThread ==
  /\ [](\A w \in Slots :
          BusDown(w) => block[w] = "ok" /\ TasksBy(w, "dbus") = {})
  /\ [][\A w \in Slots :
          /\ dbus[w].pc = "start" /\ dbus'[w].pc = "dead" =>
               UNCHANGED <<blockVars, alsa, mon, chan, rx>>
          /\ BusDown(w) => dbus'[w] = dbus[w]
          /\ BusDown(w) /\ alsa[w].pc = "read" /\ alsa'[w].pc # "read" =>
               /\ alsa'[w].pc = "sleep"
               /\ chan' = Append(chan, [id |-> id[w], by |-> <<w, "alsa">>])
       ]_vars

\* With the thread of the bus ended, the other thread has sent a Task and an
\* update has returned Ok.
C11_Witness ==
  \E w \in Slots :
    /\ BusDown(w)
    /\ alsa[w].pc = "sleep" /\ alsa[w].sent
    /\ TasksBy(w, "alsa") # {}
    /\ call[w].op = "update" /\ call[w].res = Ok

\* C12: the listeners of a block exist, and Tasks of the block are sent, only
\* once Jack::new has run its get_info and it returned Ok; a get_info that
\* fails makes Jack::new fail, and then no listener is started, no id is held
\* and no Task is ever sent for the block.
C12_ListenersOnlyAfterFirstRefresh ==
  \A w \in Slots :
    /\ (alsa[w].pc # "unborn" \/ dbus[w].pc # "unborn"
          \/ TasksBy(w, "alsa") # {} \/ TasksBy(w, "dbus") # {}) =>
         block[w] = "ok" /\ call[w].op # "none"
    /\ (call[w].op = "new" /\ call[w].res # Ok) =>
         /\ block[w] = "failed"
         /\ alsa[w].pc = "unborn" /\ dbus[w].pc = "unborn"
         /\ id[w] = NoId

\* A Jack::new that failed on its first get_info.
C12_Witness ==
  \E w \in Slots :
    /\ block[w] = "failed"
    /\ call[w].op = "new"
    /\ call[w].res = ErrRunAmixer
    /\ alsa[w].pc = "unborn"

\* C14: every turn of the loop of a listener ends in the sleep of 250 ms, with
\* or without a send; the turn sends one Task at most; and the loop turns
\* again only when these 250 ms are over.
C14_EveryTurnEndsInTheSleep ==
  [][
     /\ \A w \in Slots :
          /\ alsa[w].pc = "read" /\ alsa'[w].pc # "read" =>
               alsa'[w].pc = "sleep" /\ alsa'[w].sleep = SleepMs
          /\ dbus[w].pc = "wait" /\ dbus'[w].pc # "wait" =>
               dbus'[w].pc = "sleep" /\ dbus'[w].sleep = SleepMs
          /\ alsa[w].pc = "sleep" /\ alsa'[w].pc # "sleep" =>
               alsa[w].sleep = 0 /\ alsa'[w].pc = "read"
          /\ dbus[w].pc = "sleep" /\ dbus'[w].pc # "sleep" =>
               dbus[w].sleep = 0 /\ dbus'[w].pc = "wait"
     /\ Len(chan') <= Len(chan) + 1
     /\ Len(chan') > Len(chan) =>
          \E w \in Slots :
            \/ alsa[w].pc = "read" /\ alsa'[w].pc = "sleep"
            \/ dbus[w].pc = "wait" /\ dbus'[w].pc = "sleep"
  ]_vars

\* One thread in the sleep after a send, the other in the sleep after a wait
\* that ended without message.
C14_Witness ==
  \E w \in Slots :
    /\ alsa[w].pc = "sleep" /\ alsa[w].sent /\ alsa[w].sleep < SleepMs
    /\ dbus[w].pc = "sleep" /\ ~dbus[w].sent /\ dbus[w].sleep = SleepMs

\* A step of a listener of block w, of its monitor or of its bus connection.
ListenerStep(w) ==
  \/ alsa[w].pc # "unborn" /\ alsa'[w] # alsa[w]
  \/ dbus[w].pc # "unborn" /\ dbus'[w] # dbus[w]
  \/ mon'[w] # mon[w]
  \/ busq'[w] # busq[w]
  \/ Len(chan') > Len(chan)

\* C18: no step of a listener changes the device, nor the widget, the id or
\* the configuration of the block: the device changes only in the steps of
\* Jack::new and of update, which are no steps of a listener.
C18_ListenersLeaveTheDevice ==
  [][\A w \in Slots :
       ListenerStep(w) => UNCHANGED <<sd, text, id, conf, block, call>>
    ]_vars

\* A listener has sent a Task and sleeps, and an update has since found the
\* server rolling.
C18_Witness ==
  \E w \in Slots :
    /\ alsa[w].pc = "sleep" /\ alsa[w].sent
    /\ TasksBy(w, "alsa") # {}
    /\ call[w].op = "update"
    /\ sd[w].jack_rolling
    /\ "jack_rolling" \notin call[w].kept

(***************************************************************************)
(* The end of a listener, under SpecDbus; its progress, under LiveAlsa.    *)
(***************************************************************************)

\* C15: a thread that has entered its loop never ends: a thread is ended only
\* by the failure of its start, before the loop, whatever its reads, its
\* waits and its sends return.
C15_LoopNeverEnds ==
  \A w \in Slots :
    /\ alsa[w].pc = "dead" => alsa[w].took = "none"
    /\ dbus[w].pc = "dead" => dbus[w].took = "none"

\* Bytes of the burst wait in the pipe of the monitor of block w.
Pending(w) == Taken(mon[w].pipe, PipeBytes(mon[w].pipe))

\* C20: every control event that the monitor wrote and that waits in the pipe
\* is followed by a Task that the thread sends after a read that took bytes of
\* the event, also when the event was written during the sleep of the thread.
C20_EveryEventIsFollowedByARequest ==
  \A w \in Slots, k \in 0..(3 * MaxPipe) :
    (Pending(w) /\ burst[w].requests = k) ~> (burst[w].requests > k)

\* Two events of one burst, the second written during the sleep that followed
\* the read of the first, and a Task sent after each.
C20_Witness ==
  \E w \in Slots :
    /\ BurstRead(w)
    /\ burst[w].events = 2
    /\ burst[w].requests = 2
    /\ alsa[w].pc = "sleep" /\ alsa[w].sent

====
